---- MODULE Spec2Model ----
(***************************************************************************)
(* Model of docs/analysis/rainfall_rate_calculation_solution.py: the       *)
(* mass-conserving rainfall rate calculation, its validation table and its *)
(* conservation check.                                                     *)
(*                                                                         *)
(* The script computes with Python floats (IEEE-754 binary64, round to     *)
(* nearest, ties to even).  The model keeps that arithmetic: a float is a  *)
(* record [s, m, e] of value (-1)^s * m * 2^e with m = 0 or                *)
(* 2^52 <= m < 2^53, and m is held as a little-endian sequence of 15-bit   *)
(* limbs so that no intermediate product leaves the integers TLC has.      *)
(* Every value main() computes from the inputs below lies far inside the   *)
(* normal range of binary64, so overflow and subnormals are left out.      *)
(***************************************************************************)
EXTENDS Integers, Sequences, FiniteSets, TLC

(***************************************************************************)
(* Natural numbers of any size: sequences of limbs, least significant     *)
(* first, no leading zero limb; zero is the empty sequence.                *)
(***************************************************************************)
Limb == 2^15

MantDig == 53

RECURSIVE BNTrim(_)
BNTrim(a) ==
  IF Len(a) > 0 /\ a[Len(a)] = 0 THEN BNTrim(SubSeq(a, 1, Len(a) - 1)) ELSE a

RECURSIVE BNFromNat(_)
BNFromNat(n) == IF n = 0 THEN <<>> ELSE <<n % Limb>> \o BNFromNat(n \div Limb)

BNLimb(a, i) == IF i <= Len(a) THEN a[i] ELSE 0

RECURSIVE BNCmpFrom(_, _, _)
BNCmpFrom(a, b, i) ==
  IF i = 0 THEN 0
  ELSE IF a[i] > b[i] THEN 1
  ELSE IF a[i] < b[i] THEN -1
  ELSE BNCmpFrom(a, b, i - 1)

BNCmp(a, b) ==
  IF Len(a) > Len(b) THEN 1
  ELSE IF Len(a) < Len(b) THEN -1
  ELSE BNCmpFrom(a, b, Len(a))

RECURSIVE BNAddFrom(_, _, _, _)
BNAddFrom(a, b, i, c) ==
  IF i > Len(a) /\ i > Len(b)
  THEN (IF c = 0 THEN <<>> ELSE <<c>>)
  ELSE LET t == BNLimb(a, i) + BNLimb(b, i) + c
       IN  <<t % Limb>> \o BNAddFrom(a, b, i + 1, t \div Limb)

BNAdd(a, b) == BNAddFrom(a, b, 1, 0)

RECURSIVE BNSubFrom(_, _, _, _)
BNSubFrom(a, b, i, br) ==
  IF i > Len(a) THEN <<>>
  ELSE LET t == a[i] - BNLimb(b, i) - br
       IN  IF t < 0 THEN <<t + Limb>> \o BNSubFrom(a, b, i + 1, 1)
                    ELSE <<t>> \o BNSubFrom(a, b, i + 1, 0)

\* a - b for a >= b
BNSub(a, b) == BNTrim(BNSubFrom(a, b, 1, 0))

RECURSIVE BNMulSmallFrom(_, _, _, _)
BNMulSmallFrom(a, k, i, c) ==
  IF i > Len(a)
  THEN (IF c = 0 THEN <<>> ELSE <<c>>)
  ELSE LET t == a[i] * k + c
       IN  <<t % Limb>> \o BNMulSmallFrom(a, k, i + 1, t \div Limb)

\* a * k for 0 <= k < Limb
BNMulSmall(a, k) == IF k = 0 THEN <<>> ELSE BNMulSmallFrom(a, k, 1, 0)

BNShiftLimbs(a, n) == IF a = <<>> THEN a ELSE [i \in 1..n |-> 0] \o a

RECURSIVE BNMulFrom(_, _, _)
BNMulFrom(a, b, i) ==
  IF i > Len(b) THEN <<>>
  ELSE BNAdd(BNShiftLimbs(BNMulSmall(a, b[i]), i - 1), BNMulFrom(a, b, i + 1))

BNMul(a, b) == BNMulFrom(a, b, 1)

\* a * 2^n
BNShl(a, n) == BNShiftLimbs(BNMulSmall(a, 2^(n % 15)), n \div 15)

RECURSIVE BNShrSmall(_, _, _, _)
BNShrSmall(a, k, i, r) ==
  IF i = 0 THEN <<>>
  ELSE LET t == r * Limb + a[i]
       IN  BNShrSmall(a, k, i - 1, t % (2^k)) \o <<t \div (2^k)>>

\* a \div 2^n
BNShr(a, n) ==
  LET d == n \div 15
  IN  IF d >= Len(a) THEN <<>>
      ELSE BNTrim(BNShrSmall(SubSeq(a, d + 1, Len(a)), n % 15, Len(a) - d, 0))

RECURSIVE NatBitLen(_)
NatBitLen(n) == IF n = 0 THEN 0 ELSE 1 + NatBitLen(n \div 2)

BNBitLen(a) == IF a = <<>> THEN 0 ELSE 15 * (Len(a) - 1) + NatBitLen(a[Len(a)])

BNIsOdd(a) == a # <<>> /\ a[1] % 2 = 1

\* Long division, one quotient bit at a time: from remainder r < d, the pair
\* <<quotient bits, remainder>> of r * 2^k by d, for k <= 15; qi is the
\* quotient so far.
RECURSIVE BNDivLimb(_, _, _, _)
BNDivLimb(r, d, k, qi) ==
  IF k = 0 THEN <<qi, r>>
  ELSE LET r2 == BNAdd(r, r)
       IN  IF BNCmp(r2, d) >= 0
           THEN BNDivLimb(BNSub(r2, d), d, k - 1, 2 * qi + 1)
           ELSE BNDivLimb(r2, d, k - 1, 2 * qi)

\* <<a * 2^60 \div d, whether a remainder is left>> for a < 2 * d
BNDiv60(a, d) ==
  LET ge == BNCmp(a, d) >= 0
      r0 == IF ge THEN BNSub(a, d) ELSE a
      s1 == BNDivLimb(r0, d, 15, 0)
      s2 == BNDivLimb(s1[2], d, 15, 0)
      s3 == BNDivLimb(s2[2], d, 15, 0)
      s4 == BNDivLimb(s3[2], d, 15, 0)
  IN  <<BNTrim(<<s4[1], s3[1], s2[1], s1[1], IF ge THEN 1 ELSE 0>>), s4[2] # <<>>>>

(***************************************************************************)
(* Python float: binary64 values and the operations the script applies.   *)
(***************************************************************************)
FZero(s) == [s |-> s, m |-> <<>>, e |-> 0]

FIsZero(a) == a.m = <<>>

\* The float nearest to (-1)^s * M * 2^E (plus, when sticky, a positive
\* amount below one unit of M): round to nearest, ties to even.
FRound(s, M, E, sticky) ==
  LET L == BNBitLen(M)
  IN  IF L <= MantDig
      THEN [s |-> s, m |-> BNShl(M, MantDig - L), e |-> E - (MantDig - L)]
      ELSE LET sh   == L - MantDig
               q    == BNShr(M, sh)
               rem  == BNSub(M, BNShl(q, sh))
               half == BNShl(<<1>>, sh - 1)
               c    == BNCmp(rem, half)
               up   == c > 0 \/ (c = 0 /\ (sticky \/ BNIsOdd(q)))
               q2   == IF up THEN BNAdd(q, <<1>>) ELSE q
           IN  IF BNBitLen(q2) > MantDig
               THEN [s |-> s, m |-> BNShr(q2, 1), e |-> E + sh + 1]
               ELSE [s |-> s, m |-> q2, e |-> E + sh]

\* float(n) for an int n
FFromInt(n) ==
  IF n = 0 THEN FZero(0)
  ELSE IF n < 0 THEN FRound(1, BNFromNat(-n), 0, FALSE)
  ELSE FRound(0, BNFromNat(n), 0, FALSE)

FNeg(a) == [a EXCEPT !.s = 1 - a.s]

FAbs(a) == [a EXCEPT !.s = 0]

\* a * b
FMul(a, b) ==
  LET s == (a.s + b.s) % 2
  IN  IF FIsZero(a) \/ FIsZero(b) THEN FZero(s)
      ELSE FRound(s, BNMul(a.m, b.m), a.e + b.e, FALSE)

\* a / b for b # 0 (Python raises ZeroDivisionError otherwise)
FDiv(a, b) ==
  LET s == (a.s + b.s) % 2
  IN  IF FIsZero(a) THEN FZero(s)
      ELSE LET qr == BNDiv60(a.m, b.m)
           IN  FRound(s, qr[1], a.e - b.e - 60, qr[2])

\* |a| compared with |b|: -1, 0 or 1
FCmpMag(a, b) ==
  IF FIsZero(a) THEN (IF FIsZero(b) THEN 0 ELSE -1)
  ELSE IF FIsZero(b) THEN 1
  ELSE IF a.e > b.e THEN 1
  ELSE IF a.e < b.e THEN -1
  ELSE BNCmp(a.m, b.m)

\* a compared with b: -1, 0 or 1 (0.0 == -0.0)
FCmp(a, b) ==
  IF FIsZero(a) /\ FIsZero(b) THEN 0
  ELSE IF FIsZero(a) THEN (IF b.s = 0 THEN -1 ELSE 1)
  ELSE IF FIsZero(b) THEN (IF a.s = 0 THEN 1 ELSE -1)
  ELSE IF a.s # b.s THEN (IF a.s = 0 THEN 1 ELSE -1)
  ELSE IF a.s = 0 THEN FCmpMag(a, b)
  ELSE -FCmpMag(a, b)

FLe(a, b) == FCmp(a, b) <= 0

FLt(a, b) == FCmp(a, b) < 0

FEq(a, b) == FCmp(a, b) = 0

\* a + b
FAdd(a, b) ==
  IF FIsZero(a) THEN (IF FIsZero(b) THEN FZero(a.s * b.s) ELSE b)
  ELSE IF FIsZero(b) THEN a
  ELSE LET big == FCmpMag(a, b) >= 0
           hi  == IF big THEN a ELSE b
           lo  == IF big THEN b ELSE a
           d   == hi.e - lo.e
       IN  IF d > 60 THEN hi
           ELSE LET H == BNShl(hi.m, d)
                IN  IF hi.s = lo.s THEN FRound(hi.s, BNAdd(H, lo.m), lo.e, FALSE)
                    ELSE IF H = lo.m THEN FZero(0)
                    ELSE FRound(hi.s, BNSub(H, lo.m), lo.e, FALSE)

\* a - b
FSub(a, b) == FAdd(a, FNeg(b))

\* The float a decimal literal n / 10^k denotes (n, d ints): the correctly
\* rounded quotient.
FLit(n, d) == FDiv(FFromInt(n), FFromInt(d))

\* The numeric literals of the script, as floats.
Lit_0 == FZero(0)

Lit_1 == FFromInt(1)

Lit_3 == FLit(3, 1)

Lit_24 == FFromInt(24)

Lit_1000 == FFromInt(1000)

Lit_24000 == FFromInt(24 * 1000)

Lit_365_25 == FLit(36525, 100)

Lit_0_5 == FLit(5, 10)

Lit_10 == FLit(100, 10)

Lit_200 == FFromInt(200)

Lit_2000 == FFromInt(2000)

Lit_0_01 == FLit(1, 100)

Lit_0_002 == FLit(2, 1000)

\* A name main() has not bound yet.
Unset == [s |-> 2, m |-> <<>>, e |-> 0]

(***************************************************************************)
(* The values main() hard-codes, drawn here from small sets that contain   *)
(* the script's own.                                                       *)
(***************************************************************************)
MaxSide == 2

\* <<width, height>> pairs: the script's reference and test scale, small
\* grids, grids without cells and grids of negative dimensions.
SmallGeometries == (0..MaxSide) \X (1..MaxSide)

RefGeometries == {<<240, 120>>, <<-5, 5>>} \cup SmallGeometries

TestGeometries ==
  {<<25, 25>>, <<240, 120>>, <<-25, -25>>, <<40, 20>>, <<100, 80>>}
    \cup SmallGeometries

\* target_daily_mm as the decimal literal n / d: the script's 3.0, and
\* 0.0, -3.0 and 1.2
Targets == {<<3, 1>>, <<0, 1>>, <<-3, 1>>, <<12, 10>>}

\* test_grids of the script
ScriptGrids ==
  << <<4, 4>>, <<25, 25>>, <<50, 50>>, <<100, 100>>, <<240, 120>>, <<500, 250>> >>

GridLists ==
  {ScriptGrids,
   << <<1, 1>>, <<2, 1>>, <<1, 2>>, <<3, 3>>, <<487, 9>>, <<0, 3>> >>}

VARIABLES
  pc,                    \* the section of main() to run next
  printed,               \* print() calls completed
  error,                 \* the exception main() ended with, or "none"
  target_daily_mm, target_rate_m_hour,
  ref_width, ref_height, ref_cells,
  test_width, test_height, test_cells,
  scaling_factor,
  current_base_rate, buggy_area_ratio, buggy_effective_rate, buggy_daily_mm,
  optimal_base_rate,
  test_grids, rows,      \* rows: the table rows printed by the validation loop
  small_total, ref_total, conservation,
  summary                \* what the final summary reports

inputs == <<target_daily_mm, ref_width, ref_height, test_width, test_height,
            current_base_rate, test_grids>>

vars == <<pc, printed, error, target_daily_mm, target_rate_m_hour,
          ref_width, ref_height, ref_cells, test_width, test_height, test_cells,
          scaling_factor, current_base_rate, buggy_area_ratio,
          buggy_effective_rate, buggy_daily_mm, optimal_base_rate,
          test_grids, rows, small_total, ref_total, conservation, summary>>

Init ==
  /\ pc = "constraints"
  /\ printed = 0
  /\ error = "none"
  /\ \E t \in Targets : target_daily_mm = FLit(t[1], t[2])
  /\ \E g \in RefGeometries : ref_width = g[1] /\ ref_height = g[2]
  /\ \E g \in TestGeometries : test_width = g[1] /\ test_height = g[2]
  /\ current_base_rate = Lit_0_002
  /\ test_grids \in GridLists
  /\ target_rate_m_hour = Unset
  /\ ref_cells = 0
  /\ test_cells = 0
  /\ scaling_factor = Unset
  /\ buggy_area_ratio = Unset
  /\ buggy_effective_rate = Unset
  /\ buggy_daily_mm = Unset
  /\ optimal_base_rate = Unset
  /\ rows = <<>>
  /\ small_total = Unset
  /\ ref_total = Unset
  /\ conservation = "none"
  /\ summary = <<>>

\* An uncaught ZeroDivisionError ends main() after n more print() calls.
Raise(n) ==
  /\ pc' = "raised"
  /\ error' = "ZeroDivisionError"
  /\ printed' = printed + n

\* x * 24 * 1000 (lines 58, 101)
Times24000(x) == FMul(FMul(x, Lit_24), Lit_1000)

\* The ratio taken backwards: cells / ref_cells.
ScalingFactor_Backwards(refc, cells) == FDiv(FFromInt(cells), FFromInt(refc))

\* lines 44, 99: ref_cells / cells, for cells # 0
ScalingFactor(refc, cells) == FDiv(FFromInt(refc), FFromInt(cells))

\* line 56: test_cells / ref_cells, for ref_cells # 0
BuggyAreaRatio(testc, refc) == FDiv(FFromInt(testc), FFromInt(refc))

\* The base rate multiplied by the area ratio instead of divided by it.
BuggyEffectiveRate_Multiplied(base_rate, area_ratio) == FMul(base_rate, area_ratio)

\* line 57
BuggyEffectiveRate(base_rate, area_ratio) == FDiv(base_rate, area_ratio)

\* The base rate left at the target rate, not divided by the scaling factor.
OptimalBaseRate_Uncalibrated(target_rate, factor) == target_rate

\* line 76
OptimalBaseRate(target_rate, factor) == FDiv(target_rate, factor)

\* The base rate divided by the scale instead of multiplied by it.
EffectiveRate_Divided(base_rate, scale) == FDiv(base_rate, scale)

\* line 100
EffectiveRate(base_rate, scale) == FMul(base_rate, scale)

\* line 102
AnnualMM(daily_mm) == FMul(daily_mm, Lit_365_25)

\* lines 17-30
PhysicalConstraints ==
  /\ pc = "constraints"
  /\ target_rate_m_hour' = FDiv(target_daily_mm, Lit_24000)
  /\ printed' = printed + 6
  /\ pc' = "grid_scaling"
  /\ UNCHANGED <<error, inputs, ref_cells, test_cells, scaling_factor,
                 buggy_area_ratio, buggy_effective_rate, buggy_daily_mm,
                 optimal_base_rate, rows, small_total, ref_total, conservation,
                 summary>>

\* lines 32-49
GridScalingAnalysis ==
  /\ pc = "grid_scaling"
  /\ ref_cells' = ref_width * ref_height
  /\ test_cells' = test_width * test_height
  /\ IF test_cells' = 0
     THEN /\ Raise(1)
          /\ UNCHANGED scaling_factor
     ELSE /\ scaling_factor' = ScalingFactor(ref_cells', test_cells')
          /\ printed' = printed + 5
          /\ pc' = "bug_demonstration"
          /\ UNCHANGED error
  /\ UNCHANGED <<inputs, target_rate_m_hour, buggy_area_ratio,
                 buggy_effective_rate, buggy_daily_mm, optimal_base_rate, rows,
                 small_total, ref_total, conservation, summary>>

\* lines 51-65
CurrentBugDemonstration ==
  /\ pc = "bug_demonstration"
  /\ IF ref_cells = 0
     THEN /\ Raise(1)
          /\ UNCHANGED <<buggy_area_ratio, buggy_effective_rate, buggy_daily_mm>>
     ELSE /\ buggy_area_ratio' = BuggyAreaRatio(test_cells, ref_cells)
          /\ IF FIsZero(buggy_area_ratio')
             THEN /\ Raise(1)
                  /\ UNCHANGED <<buggy_effective_rate, buggy_daily_mm>>
             ELSE /\ buggy_effective_rate' =
                       BuggyEffectiveRate(current_base_rate, buggy_area_ratio')
                  /\ buggy_daily_mm' = Times24000(buggy_effective_rate')
                  /\ IF FIsZero(target_daily_mm)
                     THEN Raise(5)
                     ELSE /\ printed' = printed + 7
                          /\ pc' = "solution"
                          /\ UNCHANGED error
  /\ UNCHANGED <<inputs, target_rate_m_hour, ref_cells, test_cells,
                 scaling_factor, optimal_base_rate, rows, small_total, ref_total,
                 conservation, summary>>

\* lines 67-81
MathematicalSolution ==
  /\ pc = "solution"
  /\ IF FIsZero(scaling_factor)
     THEN /\ Raise(6)
          /\ UNCHANGED optimal_base_rate
     ELSE /\ optimal_base_rate' = OptimalBaseRate(target_rate_m_hour, scaling_factor)
          /\ printed' = printed + 10
          /\ pc' = "validation"
          /\ UNCHANGED error
  /\ UNCHANGED <<inputs, target_rate_m_hour, ref_cells, test_cells,
                 scaling_factor, buggy_area_ratio, buggy_effective_rate,
                 buggy_daily_mm, rows, small_total, ref_total, conservation,
                 summary>>

\* The annual bounds taken as exclusive.
Realistic_Exclusive(daily_mm, annual_mm) ==
  IF /\ FLe(Lit_0_5, daily_mm) /\ FLe(daily_mm, Lit_10)
     /\ FLt(Lit_200, annual_mm) /\ FLt(annual_mm, Lit_2000)
  THEN "YES" ELSE "NO"

\* line 105
Realistic(daily_mm, annual_mm) ==
  IF /\ FLe(Lit_0_5, daily_mm) /\ FLe(daily_mm, Lit_10)
     /\ FLe(Lit_200, annual_mm) /\ FLe(annual_mm, Lit_2000)
  THEN "YES" ELSE "NO"

\* lines 98-105: the table row of one grid, for cells # 0
Row(width, height) ==
  LET cells     == width * height
      scale     == ScalingFactor(ref_cells, cells)
      eff_rate  == EffectiveRate(optimal_base_rate, scale)
      daily_mm  == Times24000(eff_rate)
      annual_mm == AnnualMM(daily_mm)
  IN  [width |-> width, height |-> height, cells |-> cells, scale |-> scale,
       eff_rate |-> eff_rate, daily_mm |-> daily_mm, annual_mm |-> annual_mm,
       realistic |-> Realistic(daily_mm, annual_mm)]

\* lines 83-109: one pass of the loop (the table header with the first, the
\* blank line once test_grids is exhausted)
ValidationAcrossGridSizes ==
  /\ pc = "validation"
  /\ LET i      == Len(rows) + 1
         header == IF rows = <<>> THEN 3 ELSE 0
     IN  IF i > Len(test_grids)
         THEN /\ printed' = printed + header + 1
              /\ pc' = "conservation"
              /\ UNCHANGED <<rows, error>>
         ELSE IF test_grids[i][1] * test_grids[i][2] = 0
         THEN /\ Raise(header)
              /\ UNCHANGED rows
         ELSE /\ rows' = Append(rows, Row(test_grids[i][1], test_grids[i][2]))
              /\ printed' = printed + header + 1
              /\ UNCHANGED <<pc, error>>
  /\ UNCHANGED <<inputs, target_rate_m_hour, ref_cells, test_cells,
                 scaling_factor, buggy_area_ratio, buggy_effective_rate,
                 buggy_daily_mm, optimal_base_rate, small_total, ref_total,
                 conservation, summary>>

\* line 121
ConservationVerdict(ratio) ==
  IF FLt(FAbs(FSub(ratio, scaling_factor)), Lit_0_01) THEN "PERFECT" ELSE "POOR"

\* lines 111-122
MassConservationVerification ==
  /\ pc = "conservation"
  /\ small_total' = FMul(FMul(optimal_base_rate, scaling_factor), FFromInt(test_cells))
  /\ ref_total' = FMul(FMul(optimal_base_rate, Lit_1), FFromInt(ref_cells))
  /\ IF FIsZero(small_total')
     THEN /\ Raise(3)
          /\ UNCHANGED conservation
     ELSE /\ conservation' = ConservationVerdict(FDiv(ref_total', small_total'))
          /\ printed' = printed + 6
          /\ pc' = "comparison"
          /\ UNCHANGED error
  /\ UNCHANGED <<inputs, target_rate_m_hour, ref_cells, test_cells,
                 scaling_factor, buggy_area_ratio, buggy_effective_rate,
                 buggy_daily_mm, optimal_base_rate, rows, summary>>

\* lines 124-171: the comparison, the printed proof and the recommendation
ImplementationComparison ==
  /\ pc = "comparison"
  /\ IF FIsZero(optimal_base_rate)
     THEN Raise(3)
     ELSE /\ printed' = printed + 43
          /\ pc' = "summary"
          /\ UNCHANGED error
  /\ UNCHANGED <<inputs, target_rate_m_hour, ref_cells, test_cells,
                 scaling_factor, buggy_area_ratio, buggy_effective_rate,
                 buggy_daily_mm, optimal_base_rate, rows, small_total, ref_total,
                 conservation, summary>>

\* lines 173-187
FinalSummary ==
  /\ pc = "summary"
  /\ summary' = [base_rainfall_rate |-> optimal_base_rate,
                 test_grid_daily_mm |-> target_daily_mm,
                 test_grid |-> "realistic",
                 reference_annual_mm |-> AnnualMM(Times24000(optimal_base_rate)),
                 reference |-> "realistic",
                 mass_conservation |-> "Perfect",
                 reduction |-> FDiv(current_base_rate, optimal_base_rate)]
  /\ printed' = printed + 14
  /\ pc' = "done"
  /\ UNCHANGED <<error, inputs, target_rate_m_hour, ref_cells, test_cells,
                 scaling_factor, buggy_area_ratio, buggy_effective_rate,
                 buggy_daily_mm, optimal_base_rate, rows, small_total, ref_total,
                 conservation>>

Next ==
  \/ PhysicalConstraints
  \/ GridScalingAnalysis
  \/ CurrentBugDemonstration
  \/ MathematicalSolution
  \/ ValidationAcrossGridSizes
  \/ MassConservationVerification
  \/ ImplementationComparison
  \/ FinalSummary

Spec == Init /\ [][Next]_vars

(***************************************************************************)
(* Properties                                                              *)
(***************************************************************************)
\* A reference geometry, a test geometry and a daily target the data model
\* calls valid: positive dimensions, a positive target.
ValidRef == ref_width > 0 /\ ref_height > 0

ValidTest == test_width > 0 /\ test_height > 0

PositiveTarget == FLt(Lit_0, target_daily_mm)

ValidInputs == ValidRef /\ ValidTest /\ PositiveTarget

ValidRow(r) == r.width > 0 /\ r.height > 0

\* The values the script hard-codes.
ScriptInputs ==
  /\ target_daily_mm = Lit_3
  /\ ref_width = 240 /\ ref_height = 120
  /\ test_width = 25 /\ test_height = 25
  /\ test_grids = ScriptGrids

\* The relative tolerance 1e-9 of the round-trip and invariance properties.
Tolerance == FLit(1, 1000000000)

\* |x - y| <= 1e-9 * |y|
Close(x, y) == FLe(FAbs(FSub(x, y)), FMul(Tolerance, FAbs(y)))

\* Values the scenario names.
Val_0_000125 == FLit(125, 1000000)

Val_46_08 == FLit(4608, 100)

Val_138_24 == FLit(13824, 100)

Val_0_09216 == FLit(9216, 100000)

\* C1: reference round trip. For a valid reference geometry and a positive
\* daily target, the calculated base rate times the scaling factor of the
\* reference (ref_cells / ref_cells = 1) equals the target rate per hour, so
\* the base rate equals the target rate per hour.
C1_ReferenceRoundTrip ==
  (ValidInputs /\ optimal_base_rate # Unset) =>
    /\ FEq(ScalingFactor(ref_cells, ref_cells), Lit_1)
    /\ FEq(EffectiveRate(optimal_base_rate, ScalingFactor(ref_cells, ref_cells)),
           target_rate_m_hour)
    /\ FEq(optimal_base_rate, target_rate_m_hour)

\* C2: the conservation check passes for every valid reference geometry,
\* valid other geometry and positive base rate: the verdict is PERFECT, never
\* POOR.
C2_ConservationCheckPasses ==
  (ValidInputs /\ conservation # "none") => conservation = "PERFECT"

C4_AllGridsRealistic ==
  ScriptInputs => \A i \in DOMAIN rows : rows[i].realistic = "YES"

\* C5: for the 240x120 reference and a 3.0 mm/day target, the annual rainfall
\* at the reference geometry from the calibrated base rate, the value the final
\* summary labels realistic, lies within [200, 2000].
C5_ReferenceAnnualRealistic ==
  (ScriptInputs /\ pc = "done") =>
    /\ summary.reference = "realistic"
    /\ FLe(Lit_200, summary.reference_annual_mm)
    /\ FLe(summary.reference_annual_mm, Lit_2000)

\* The 25x25 row of the script's table, once printed, for reference 240x120
\* and target 3.0 mm/day.
C6_Scenario ==
  /\ target_daily_mm = Lit_3
  /\ ref_width = 240 /\ ref_height = 120
  /\ test_grids = ScriptGrids
  /\ Len(rows) >= 2

C6_BaseIsTarget == test_width = 240 /\ test_height = 120

C6_BaseFor25 == test_width = 25 /\ test_height = 25

C7_ClassificationRule ==
  \A i \in DOMAIN rows :
    LET r == rows[i]
    IN  /\ r.cells = r.width * r.height
        /\ r.eff_rate =
             FMul(optimal_base_rate, FDiv(FFromInt(ref_cells), FFromInt(r.cells)))
        /\ r.daily_mm = FMul(FMul(r.eff_rate, Lit_24), Lit_1000)
        /\ r.annual_mm = FMul(r.daily_mm, Lit_365_25)
        /\ r.realistic \in {"YES", "NO"}
        /\ r.realistic = "YES" <=>
             /\ FCmp(Lit_0_5, r.daily_mm) <= 0
             /\ FCmp(r.daily_mm, Lit_10) <= 0
             /\ FCmp(Lit_200, r.annual_mm) <= 0
             /\ FCmp(r.annual_mm, Lit_2000) <= 0

\* A row whose annual rainfall is exactly the lower bound 200 and which is
\* accepted.
C7_Witness ==
  \E i \in DOMAIN rows :
    /\ FEq(rows[i].annual_mm, Lit_200)
    /\ rows[i].realistic = "YES"

\* C8: invalid input (a non-positive dimension or zero cell count of the
\* reference or of an evaluated geometry, a non-positive daily target) is
\* rejected with InvalidInput before anything is computed: no base rate, no
\* diagnostic and no conservation report is produced.
InvalidInputs ==
  \/ ~ValidRef
  \/ ~ValidTest
  \/ ~PositiveTarget
  \/ \E i \in DOMAIN test_grids : test_grids[i][1] <= 0 \/ test_grids[i][2] <= 0

C9_Monotonic ==
  (ValidRef /\ optimal_base_rate # Unset /\ FLt(Lit_0, optimal_base_rate)) =>
    \A i, j \in DOMAIN rows :
      (ValidRow(rows[i]) /\ ValidRow(rows[j])) =>
        /\ rows[i].cells < rows[j].cells => FLt(rows[j].eff_rate, rows[i].eff_rate)
        /\ rows[i].cells = rows[j].cells => FEq(rows[i].eff_rate, rows[j].eff_rate)

\* Rows of different cell counts and rows of equal cell count but different
\* dimensions, under a positive base rate.
C9_Witness ==
  /\ ValidRef
  /\ optimal_base_rate # Unset
  /\ FLt(Lit_0, optimal_base_rate)
  /\ \E i, j \in DOMAIN rows :
       /\ rows[i].cells < rows[j].cells
       /\ FLt(rows[j].eff_rate, rows[i].eff_rate)
  /\ \E i, j \in DOMAIN rows :
       /\ rows[i].cells = rows[j].cells
       /\ rows[i].width # rows[j].width

\* C10 as stated: the rate of the bug demonstration, base rate /
\* (test_cells / ref_cells), equals base rate * (ref_cells / test_cells), the
\* correct scaling, for all positive cell counts.
C10_SameFunction ==
  (ValidInputs /\ buggy_effective_rate # Unset) =>
    FEq(buggy_effective_rate, EffectiveRate(current_base_rate, scaling_factor))

\* C10 as amended: the two agree to within 1e-9 relative (they are the same
\* function of real numbers, and differ by the rounding of one division
\* against another); the excess of the demonstration comes from the base
\* rate 0.002.
C10_SameUpToRounding ==
  buggy_effective_rate # Unset =>
    /\ current_base_rate = Lit_0_002
    /\ Close(buggy_effective_rate, EffectiveRate(current_base_rate, scaling_factor))

\* The script's own values: 0.002 / (625 / 28800) and 0.002 * (28800 / 625)
\* differ in the last place.
C10_Witness ==
  /\ ScriptInputs
  /\ buggy_effective_rate # Unset
  /\ ~FEq(buggy_effective_rate, EffectiveRate(current_base_rate, scaling_factor))
  /\ FEq(buggy_effective_rate, Val_0_09216)
====
